---- MODULE Spec2Model ----
(***************************************************************************)
(* luascan: the language-server backend of src/lsp.rs and the parser       *)
(* adapter of src/parser.rs.                                               *)
(*                                                                         *)
(* The session is a set of handler futures run by the tower-lsp server     *)
(* loop.  A handler runs without interruption from one client I/O await    *)
(* (client.log_message, client.publish_diagnostics) to the next; between   *)
(* two such awaits another handler may run.  A panic (expect, index out of *)
(* range) unwinds the server loop: the session is over.                    *)
(***************************************************************************)
EXTENDS Integers, Sequences, FiniteSets, TLC

(***************************************************************************)
(* Bounds of the model.                                                    *)
(***************************************************************************)
\* document notifications (didOpen, didChange, didSave) a session receives
MaxEvents == 2
\* width of u32, scaled down from 32 bits so that the values around 2^w are
\* within reach of the model
U32Bits == 3
\* length of the client's positionEncodings list
MaxEncodings == 2
\* calls of parser::parse made from outside the server
MaxCalls == 2

(***************************************************************************)
(* Option<T>: None is the empty sequence, Some(x) the one-element one.     *)
(***************************************************************************)
None == <<>>
Some(x) == <<x>>
IsSome(o) == o # <<>>
Unwrap(o) == o[1]

IsPrefix(s, t) == Len(s) <= Len(t) /\ SubSeq(t, 1, Len(s)) = s

(***************************************************************************)
(* Paths and URIs.  A file path is its directory, the stem and the         *)
(* extension of its file name; a directory path is a sequence of names.    *)
(***************************************************************************)
File(dir, stem, ext) == [dir |-> dir, stem |-> stem, ext |-> ext]

Ws == <<"ws">>
Nowhere == <<"nowhere">>

PathA == File(<<"ws">>, "a", "lua")
PathB == File(<<"ws">>, "b", "lua")
PathC == File(<<"ws", "sub">>, "c d", "lua")
PathE == File(<<"ws">>, "e", "txt")

\* the entries of the tree in the order the directory walk meets them
WalkOrder == <<PathA, PathB, PathE, PathC>>

\* percent-encoding of a file name in a URL (Url::from_file_path, Url::path)
PercentEncode(stem) == IF stem = "c d" THEN "c%20d" ELSE stem
PercentDecode(stem) == IF stem = "c%20d" THEN "c d" ELSE stem

EncodePath(p) == [p EXCEPT !.stem = PercentEncode(p.stem)]
DecodePath(p) == [p EXCEPT !.stem = PercentDecode(p.stem)]

\* Url::from_file_path(p)
UrlFromFilePath(p) == [scheme |-> "file", path |-> EncodePath(p)]
\* to_file_path that takes the path of a URL of any scheme
ToFilePathAnyScheme(uri) == Some(DecodePath(uri.path))
\* Url::to_file_path(): Err for a URL that is no file: URL
ToFilePath(uri) == IF uri.scheme = "file" THEN Some(DecodePath(uri.path)) ELSE None
\* Url::path(): the path as written in the URL, still percent-encoded
UrlPath(uri) == uri.path

(***************************************************************************)
(* The file system the server runs on.  It does not change during a        *)
(* session.  "file" is a readable regular file, "unreadable" a regular     *)
(* file whose open or read fails, "denied" an entry whose directory cannot *)
(* be listed, "absent" no entry at all.                                    *)
(***************************************************************************)
FsKinds == {"file", "unreadable", "denied", "absent"}

FileSystems ==
    { [p \in {PathA, PathB, PathC, PathE} |->
          CASE p = PathA -> "file"
            [] p = PathB -> kb
            [] p = PathC -> kc
            [] OTHER     -> "file"] :
      kb \in {"file", "unreadable"}, kc \in {"file", "absent", "denied"} }

KnownPath(p) == p \in {PathA, PathB, PathC, PathE}
KindOf(fsys, p) == IF KnownPath(p) THEN fsys[p] ELSE "absent"

\* Path::exists() of a directory
DirExists(dir) == dir \in {<<"ws">>, <<"ws", "sub">>}
\* Path::is_file()
IsFile(fsys, p) == KindOf(fsys, p) \in {"file", "unreadable"}

(***************************************************************************)
(* Source texts.  The Lua grammar is full_moon's: a text is known here by  *)
(* its source and by the errors full_moon::parse_fallible reports for it   *)
(* under each Lua version, in the order of discovery.                      *)
(***************************************************************************)
Pos(line, character) == [line |-> line, character |-> character]

\* version is crate::config::RuntimeVersion
RuntimeVersions == {"Lua51", "Lua52", "Lua53", "Lua54"}
\* a value of RuntimeVersion that is none of the four
OtherVersion == "Other"

Text(src, errors) == [src |-> src, errors |-> [v \in RuntimeVersions |-> errors]]

FullMoonError(kind, start, end, message) ==
    [kind |-> kind, start |-> start, end |-> end, message |-> message]

NoText == Text("", << >>)
TValid == Text("local x = 1", << >>)
TIncomplete ==
    Text("local x = ",
         << FullMoonError("AstError", Pos(1, 6), Pos(1, 7), "expected an expression") >>)
\* the second error lies before the first
TBroken ==
    Text("x = = 'a",
         << FullMoonError("TokenizerError", Pos(2, 3), Pos(3, 1), "unclosed string"),
            FullMoonError("AstError", Pos(1, 1), Pos(1, 2), "unexpected token") >>)

\* a text with a goto statement: an error under Lua 5.1, valid from Lua 5.2 on
TGoto ==
    [src |-> "goto done ::done::",
     errors |-> [v \in RuntimeVersions |->
                   IF v = "Lua51"
                   THEN << FullMoonError("AstError", Pos(1, 6), Pos(1, 7),
                                         "unexpected token") >>
                   ELSE << >>]]

FileContent(p) ==
    CASE p = PathA -> TValid
      [] p = PathB -> TBroken
      [] p = PathC -> TIncomplete
      [] OTHER     -> TValid

\* File::open(p) and read_to_string: Some(content), or None on an I/O error
ReadToString(fsys, p) ==
    IF KindOf(fsys, p) = "file" THEN Some(FileContent(p)) ELSE None

\* the match of parse on its version: the LuaVersion of one of the four
\* versions, and of any other value of RuntimeVersion none: panic!
LuaVersionOf(version) == IF version \in RuntimeVersions THEN Some(version) ELSE None

\* ast.errors() of parse_fallible(code, version)
ParseFallible(code, version) == code.errors[version]

\* parser::parse: one LuascanDiagnostic per error, in the same order
ParseError(e) ==
    [loc |-> [line_start |-> e.start.line, line_end |-> e.end.line,
              col_start |-> e.start.character, col_end |-> e.end.character],
     msg |-> e.message]

\* parse with the TokenizerError arm left out
parseAstOnly(code, version) ==
    LET errs == SelectSeq(ParseFallible(code, version), LAMBDA e : e.kind = "AstError")
    IN  [i \in 1..Len(errs) |-> ParseError(errs[i])]

parse(code, version) ==
    LET errs == ParseFallible(code, version)
    IN  [i \in 1..Len(errs) |-> ParseError(errs[i])]

(***************************************************************************)
(* check_syntax, the part before its first await: the diagnostics.         *)
(***************************************************************************)
Pow2(n) == 2 ^ n
\* v as u32
AsU32(v) == v % Pow2(U32Bits)
\* u32::saturating_sub
SaturatingSub(u, n) == IF u >= n THEN u - n ELSE 0

ToDiagnostic(d) ==
    [range |-> [start |-> Pos(SaturatingSub(AsU32(d.loc.line_start), 1),
                              SaturatingSub(AsU32(d.loc.col_start), 1)),
                end   |-> Pos(SaturatingSub(AsU32(d.loc.line_end), 1),
                              SaturatingSub(AsU32(d.loc.col_end), 1))],
     severity |-> "ERROR",
     message |-> d.msg,
     code |-> "luascan code",
     code_description |-> "http://example.com",
     source |-> "luascan source"]

\* the version check_syntax passes to parse: RuntimeVersion::Lua51, whatever
\* the options the backend was built with
CheckSyntaxVersion == "Lua51"

Diagnostics(content) ==
    LET raw == parse(content, CheckSyntaxVersion)
    IN  [i \in 1..Len(raw) |-> ToDiagnostic(raw[i])]

(***************************************************************************)
(* The session.                                                            *)
(***************************************************************************)
VARIABLES
    fs,         \* the file system under the server
    state,      \* the server loop's lifecycle state
    root,       \* Backend.root: Option<PathBuf>
    workspace,  \* Backend.workspace: HashMap<PathBuf, String>
    handlers,   \* the handler futures, in the order of their dispatch
    outbox,     \* the publishDiagnostics notifications sent, in order
    logs,       \* the number of window/logMessage notifications sent
    responses,  \* the responses to initialize, in order
    crashed,    \* a handler has panicked
    poisoned,   \* the locks ("root", "workspace") whose acquisition fails
    options     \* LspOptions: the Lua version of the session's configuration

vars == <<fs, state, root, workspace, handlers, outbox, logs, responses, crashed,
          poisoned, options>>

VERSION == "0.1.0"

\* HashMap::insert and HashMap::get; the map is a function on its keys
MapInsert(m, k, v) == [x \in (DOMAIN m) \cup {k} |-> IF x = k THEN v ELSE m[x]]
MapGet(m, k) == IF k \in DOMAIN m THEN Some(m[k]) ELSE None
EmptyMap == << >>

\* A guard of one of the two RwLocks.
Guard(lock, mode) == [lock |-> lock, mode |-> mode]
\* an accessor whose guard outlives the call
Kept(guards) == guards
\* set_root, get_root, set_doc and get_doc bind their guard in an `if let`
\* and drop it at the end of that block: of the guards an accessor took, none
\* is alive when it returns
Released(guards) == {}

\* set_root: Ok and the root written when the path exists, Err otherwise
SetRootOk(path) == DirExists(path)
\* set_root without its test of the path
set_rootUnchecked(r, path) == Some(path)
set_root(r, path) ==
    IF DirExists(path) /\ "root" \notin poisoned THEN Some(path) ELSE r
\* get_root: None when the lock cannot be taken
get_root(r) == IF "root" \in poisoned THEN None ELSE r
\* set_doc: nothing written when the lock cannot be taken
set_doc(ws, path, content) ==
    IF "workspace" \in poisoned THEN ws ELSE MapInsert(ws, path, content)
\* get_doc: None when the lock cannot be taken
get_doc(ws, path) == IF "workspace" \in poisoned THEN None ELSE MapGet(ws, path)

(***************************************************************************)
(* initialize                                                              *)
(***************************************************************************)
UTF8 == "utf-8"
UTF16 == "utf-16"
UTF32 == "utf-32"
Contains(seq, x) == \E i \in 1..Len(seq) : seq[i] = x

\* the first of the client's encodings that the server knows, in the client's order
PositionEncodingClientOrder(capabilities) ==
    IF IsSome(capabilities.general)
    THEN LET encodings == Unwrap(capabilities.general).position_encodings
         IN  IF IsSome(encodings)
             THEN LET known == SelectSeq(Unwrap(encodings),
                                         LAMBDA e : e \in {UTF8, UTF16, UTF32})
                  IN  IF known # << >> THEN Some(Head(known)) ELSE None
             ELSE None
    ELSE None

PositionEncoding(capabilities) ==
    IF IsSome(capabilities.general)
    THEN LET encodings == Unwrap(capabilities.general).position_encodings
         IN  IF IsSome(encodings)
             THEN IF Contains(Unwrap(encodings), UTF8) THEN Some(UTF8)
                  ELSE IF Contains(Unwrap(encodings), UTF16) THEN Some(UTF16)
                  ELSE IF Contains(Unwrap(encodings), UTF32) THEN Some(UTF32)
                  ELSE None
             ELSE None
    ELSE None

TextDocumentSync ==
    [open_close |-> Some(TRUE), change |-> Some("FULL"), will_save |-> Some(FALSE),
     will_save_wait_until |-> Some(FALSE), save |-> None]

\* initialize with the error of set_root passed on to the client
InitializeResultStrict(params) ==
    [ok |-> ~(IsSome(params.root_uri) /\ ~SetRootOk(UrlPath(Unwrap(params.root_uri)))),
     server_info |-> Some([name |-> "luascan", version |-> Some(VERSION)]),
     capabilities |->
        [text_document_sync |-> Some(TextDocumentSync),
         position_encoding |-> PositionEncoding(params.capabilities),
         workspace |-> Some([workspace_folders |->
                                Some([supported |-> Some(TRUE),
                                      change_notifications |-> Some(TRUE)]),
                             file_operations |-> None])]]

InitializeResult(params) ==
    [ok |-> TRUE,
     server_info |-> Some([name |-> "luascan", version |-> Some(VERSION)]),
     capabilities |->
        [text_document_sync |-> Some(TextDocumentSync),
         position_encoding |-> PositionEncoding(params.capabilities),
         workspace |-> Some([workspace_folders |->
                                Some([supported |-> Some(TRUE),
                                      change_notifications |-> Some(TRUE)]),
                             file_operations |-> None])]]

InitializeParams(capabilities, root_uri) ==
    [capabilities |-> capabilities, root_uri |-> root_uri]

(***************************************************************************)
(* Handler futures.  pc is the await the future is suspended at:           *)
(*   "log"        the handler's own client.log_message                     *)
(*   "cs_log"     check_syntax's client.log_message                        *)
(*   "cs_publish" check_syntax's client.publish_diagnostics                *)
(*   "fin_log"    initialized's closing client.log_message                 *)
(*   "done", "panicked"                                                    *)
(* uri/content are the arguments of the check_syntax call in progress,     *)
(* entries the part of the glob iterator not yet consumed, wrote the       *)
(* set_doc calls the handler has made, runs the check_syntax calls it has  *)
(* made, params the InitializeParams of an initialize request.             *)
(***************************************************************************)
NoUri == [scheme |-> "", path |-> File(<< >>, "", "")]

Handler(kind, pc, uri, lang, changes, text) ==
    [kind |-> kind, pc |-> pc, uri |-> uri, lang |-> lang, changes |-> changes,
     text |-> text, content |-> NoText, entries |-> << >>, wrote |-> << >>,
     runs |-> << >>, params |-> None, version |-> None, result |-> << >>,
     held |-> {}]

DocKinds == {"did_open", "did_change", "did_save"}
Ids == 1..Len(handlers)
NumEvents == Cardinality({i \in Ids : handlers[i].kind \in DocKinds})
Dispatched(kind) == \E i \in Ids : handlers[i].kind = kind

\* RwLock: a read guard is granted while no other handler holds the write
\* guard, a write guard while no other handler holds any guard of the lock
HeldByOthers(i) == UNION {handlers[j].held : j \in Ids \ {i}}
Available(g, i) ==
    IF g.mode = "read"
    THEN Guard(g.lock, "write") \notin HeldByOthers(i)
    ELSE \A m \in {"read", "write"} : Guard(g.lock, m) \notin HeldByOthers(i)

\* initialize has no await that reaches the client: it runs to its response
Initialize(params) ==
    /\ ~crashed
    /\ state = "Uninitialized"
    /\ root' = IF IsSome(params.root_uri)
               THEN set_root(root, UrlPath(Unwrap(params.root_uri)))
               ELSE root
    /\ responses' = Append(responses, InitializeResult(params))
    /\ handlers' = Append(handlers,
                          [Handler("initialize", "done", NoUri, "", << >>, None)
                              EXCEPT !.params = Some(params)])
    /\ state' = "Initialized"
    /\ UNCHANGED <<fs, poisoned, options, workspace, outbox, logs, crashed>>

\* glob(root/**/*.lua): Ok(path) for a matching entry, Err for an entry that
\* cannot be listed
\* the pattern root/*.lua: no descent into subdirectories
GlobMatchesFlat(fsys, dir, p) ==
    /\ p.dir = dir
    /\ \/ KindOf(fsys, p) = "denied"
       \/ KindOf(fsys, p) \in {"file", "unreadable"} /\ p.ext = "lua"

GlobMatches(fsys, dir, p) ==
    /\ IsPrefix(dir, p.dir)
    /\ \/ KindOf(fsys, p) = "denied"
       \/ KindOf(fsys, p) \in {"file", "unreadable"} /\ p.ext = "lua"

Glob(fsys, dir) ==
    LET found == SelectSeq(WalkOrder, LAMBDA p : GlobMatches(fsys, dir, p))
    IN  [i \in 1..Len(found) |->
            [ok |-> KindOf(fsys, found[i]) # "denied", path |-> found[i]]]

RECURSIVE SkipErr(_)
SkipErr(entries) ==
    IF entries # << >> /\ ~Head(entries).ok THEN SkipErr(Tail(entries)) ELSE entries

\* The loop of initialized from the top of an iteration to the next await:
\* Err entries are logged and passed over; the next Ok entry is read (a panic
\* when that fails), stored, and check_syntax is entered; with no entry left
\* the loop ends at the closing log_message.
Scan(fsys, h, ws) ==
    LET rest == SkipErr(h.entries)
    IN  IF rest = << >>
        THEN [h |-> [h EXCEPT !.pc = "fin_log", !.entries = << >>,
                              !.held = @ \cup Released({Guard("root", "read")})],
              ws |-> ws, panic |-> FALSE, needs |-> {Guard("root", "read")}]
        ELSE LET p == Head(rest).path
                 read == ReadToString(fsys, p)
             IN  IF ~IsSome(read)
                 THEN [h |-> [h EXCEPT !.pc = "panicked", !.entries = rest],
                       ws |-> ws, panic |-> TRUE, needs |-> {}]
                 ELSE [h |-> [h EXCEPT !.pc = "cs_log", !.entries = Tail(rest),
                                       !.uri = UrlFromFilePath(p),
                                       !.content = Unwrap(read),
                                       !.version = Some(CheckSyntaxVersion),
                                       !.wrote = Append(@, [path |-> p,
                                                            content |-> Unwrap(read)]),
                                       !.runs = Append(@, [uri |-> UrlFromFilePath(p),
                                                           content |-> Unwrap(read)]),
                                       !.held = @ \cup Released({Guard("workspace",
                                                                           "write")})],
                       ws |-> set_doc(ws, p, Unwrap(read)), panic |-> FALSE,
                       needs |-> {Guard("workspace", "write")}]

\* initialized, up to its first await
Initialized ==
    /\ ~crashed
    /\ state = "Initialized"
    /\ ~Dispatched("initialized")
    /\ Available(Guard("root", "read"), Len(handlers) + 1)
    /\ LET h0 == Handler("initialized", "start", NoUri, "", << >>, None)
       IN  IF ~IsSome(get_root(root))
           THEN /\ handlers' = Append(handlers, [h0 EXCEPT !.pc = "panicked"])
                /\ crashed' = TRUE
                /\ UNCHANGED workspace
           ELSE LET r == Scan(fs, [h0 EXCEPT !.entries = Glob(fs, Unwrap(get_root(root)))],
                              workspace)
                IN  /\ \A g \in r.needs : Available(g, Len(handlers) + 1)
                    /\ handlers' = Append(handlers, r.h)
                    /\ workspace' = r.ws
                    /\ crashed' = r.panic
    /\ UNCHANGED <<fs, poisoned, options, state, root, outbox, logs, responses>>

\* initialized, after its closing log_message
InitializedEnd(i) ==
    /\ ~crashed
    /\ handlers[i].kind = "initialized" /\ handlers[i].pc = "fin_log"
    /\ logs' = logs + 1
    /\ handlers' = [handlers EXCEPT ![i].pc = "done"]
    /\ UNCHANGED <<fs, poisoned, options, state, root, workspace, outbox, responses, crashed>>

\* check_syntax: log_message sent, publish_diagnostics next
CheckSyntaxLog(i) ==
    /\ ~crashed
    /\ handlers[i].pc = "cs_log"
    /\ logs' = logs + 1
    /\ handlers' = [handlers EXCEPT ![i].pc = "cs_publish"]
    /\ UNCHANGED <<fs, poisoned, options, state, root, workspace, outbox, responses, crashed>>

Publish(by, uri, diagnostics) == [by |-> by, uri |-> uri, diagnostics |-> diagnostics]

\* publish_diagnostics that is left out when a later notification for the same
\* URI has arrived: the older run is superseded
SendPublishUnlessSuperseded(i) ==
    IF \E j \in Ids : /\ j > i /\ handlers[j].kind \in DocKinds
                      /\ handlers[j].uri = handlers[i].uri
    THEN outbox
    ELSE Append(outbox, Publish(i, handlers[i].uri, Diagnostics(handlers[i].content)))

\* client.publish_diagnostics(uri, diagnotics, None): the notifications sent,
\* with that of handler i at their end
SendPublish(i) ==
    Append(outbox, Publish(i, handlers[i].uri, Diagnostics(handlers[i].content)))

\* check_syntax: publish_diagnostics sent; the caller goes on: initialized to
\* its next entry, a document handler to its end
CheckSyntaxPublish(i) ==
    /\ ~crashed
    /\ handlers[i].pc = "cs_publish"
    /\ outbox' = SendPublish(i)
    /\ IF handlers[i].kind = "initialized"
       THEN LET r == Scan(fs, handlers[i], workspace)
            IN  /\ \A g \in r.needs : Available(g, i)
                /\ handlers' = [handlers EXCEPT ![i] = r.h]
                /\ workspace' = r.ws
                /\ crashed' = r.panic
       ELSE /\ handlers' = [handlers EXCEPT ![i].pc = "done"]
            /\ UNCHANGED <<workspace, crashed>>
    /\ UNCHANGED <<fs, poisoned, options, state, root, logs, responses>>

(***************************************************************************)
(* Document notifications.  Each handler reads the root for its log line   *)
(* and awaits client.log_message before it looks at its parameters.        *)
(***************************************************************************)
Dispatch(h) ==
    /\ ~crashed
    /\ state = "Initialized"
    /\ Available(Guard("root", "read"), Len(handlers) + 1)
    /\ handlers' = Append(handlers, [h EXCEPT !.held = Released({Guard("root", "read")})])
    /\ UNCHANGED <<fs, poisoned, options, root, workspace, outbox, logs, responses, crashed>>

DidOpen(uri, language_id, text) ==
    /\ NumEvents < MaxEvents
    /\ Dispatch(Handler("did_open", "log", uri, language_id, << >>, Some(text)))
    /\ UNCHANGED state

DidChange(uri, content_changes) ==
    /\ NumEvents < MaxEvents
    /\ Dispatch(Handler("did_change", "log", uri, "", content_changes, None))
    /\ UNCHANGED state

DidSave(uri, text) ==
    /\ NumEvents < MaxEvents
    /\ Dispatch(Handler("did_save", "log", uri, "", << >>, text))
    /\ UNCHANGED state

\* A document notification that arrives before the handshake or after
\* shutdown: the server loop does not call its handler.
DropNotification(kind, uri) ==
    /\ ~crashed
    /\ state # "Initialized"
    /\ NumEvents < MaxEvents
    /\ handlers' = Append(handlers,
                          Handler(kind, "dropped", uri, "lua", <<TValid>>, Some(TValid)))
    /\ UNCHANGED <<fs, poisoned, options, state, root, workspace, outbox, logs,
                   responses, crashed>>

\* the server loop takes no request after shutdown
Shutdown ==
    /\ Dispatch(Handler("shutdown", "log", NoUri, "", << >>, None))
    /\ state' = "ShutDown"

\* check_syntax on the stored copy of the document instead of the event's text
EnterCheckSyntaxStored(i, content) ==
    LET stored == get_doc(workspace, UrlPath(handlers[i].uri))
        used == IF IsSome(stored) THEN Unwrap(stored) ELSE content
    IN  [handlers[i] EXCEPT !.pc = "cs_log", !.content = used,
                            !.version = Some(CheckSyntaxVersion),
                            !.runs = Append(@, [uri |-> handlers[i].uri,
                                                content |-> used])]

\* the handler goes into check_syntax(uri, content)
EnterCheckSyntax(i, content) ==
    [handlers[i] EXCEPT !.pc = "cs_log", !.content = content,
                        !.version = Some(CheckSyntaxVersion),
                        !.runs = Append(@, [uri |-> handlers[i].uri,
                                            content |-> content])]

\* the condition of did_open without its test of the language identifier
DidOpenAcceptsAnyLanguage(fsys, h) ==
    LET path == ToFilePath(h.uri)
    IN  IsSome(path) /\ IsFile(fsys, Unwrap(path))

\* the condition under which did_open processes the document
DidOpenAccepts(fsys, h) ==
    LET path == ToFilePath(h.uri)
    IN  IsSome(path) /\ IsFile(fsys, Unwrap(path)) /\ h.lang = "lua"

\* did_open after its log_message
DidOpenBody(i) ==
    /\ ~crashed
    /\ handlers[i].kind = "did_open" /\ handlers[i].pc = "log"
    /\ logs' = logs + 1
    /\ LET h == handlers[i]
       IN  IF DidOpenAccepts(fs, h)
           THEN LET key == UrlPath(h.uri)
                    content == Unwrap(h.text)
                IN  /\ Available(Guard("workspace", "write"), i)
                    /\ workspace' = set_doc(workspace, key, content)
                    /\ handlers' =
                          [handlers EXCEPT ![i] =
                              [EnterCheckSyntax(i, content) EXCEPT
                                  !.wrote = Append(@, [path |-> key,
                                                       content |-> content]),
                                  !.held = @ \cup Released({Guard("workspace", "write")})]]
           ELSE /\ handlers' = [handlers EXCEPT ![i].pc = "done"]
                /\ UNCHANGED workspace
    /\ UNCHANGED <<fs, poisoned, options, state, root, outbox, responses, crashed>>

\* the condition of did_change with a test that the document is in the store
DidChangeAcceptsOpened(fsys, h) ==
    LET path == ToFilePath(h.uri)
    IN  /\ IsSome(path) /\ IsFile(fsys, Unwrap(path))
        /\ IsSome(get_doc(workspace, UrlPath(h.uri)))

\* the condition under which did_change goes into check_syntax
DidChangeAccepts(fsys, h) ==
    LET path == ToFilePath(h.uri)
    IN  IsSome(path) /\ IsFile(fsys, Unwrap(path))

\* did_change after its log_message; content_changes[0] panics on an empty list
DidChangeBody(i) ==
    /\ ~crashed
    /\ handlers[i].kind = "did_change" /\ handlers[i].pc = "log"
    /\ logs' = logs + 1
    /\ LET h == handlers[i]
       IN  IF h.changes = << >>
           THEN /\ handlers' = [handlers EXCEPT ![i].pc = "panicked"]
                /\ crashed' = TRUE
           ELSE /\ handlers' =
                      [handlers EXCEPT ![i] =
                          IF DidChangeAccepts(fs, h)
                          THEN EnterCheckSyntax(i, h.changes[1])
                          ELSE [h EXCEPT !.pc = "done"]]
                /\ UNCHANGED crashed
    /\ UNCHANGED <<fs, poisoned, options, state, root, workspace, outbox, responses>>

\* the text of a didSave, with the empty text in place of a missing one
SaveContentOrEmpty(h) == IF IsSome(h.text) THEN h.text ELSE Some(NoText)

\* params.text of a didSave: Some(content) when the notification carries text
SaveContent(h) == h.text

\* did_save after its log_message
DidSaveBody(i) ==
    /\ ~crashed
    /\ handlers[i].kind = "did_save" /\ handlers[i].pc = "log"
    /\ logs' = logs + 1
    /\ LET h == handlers[i]
           path == ToFilePath(h.uri)
       IN  handlers' =
              [handlers EXCEPT ![i] =
                  IF IsSome(path) /\ IsFile(fs, Unwrap(path)) /\ IsSome(SaveContent(h))
                  THEN EnterCheckSyntax(i, Unwrap(SaveContent(h)))
                  ELSE [h EXCEPT !.pc = "done"]]
    /\ UNCHANGED <<fs, poisoned, options, state, root, workspace, outbox, responses, crashed>>

\* shutdown after its log_message: Ok(())
ShutdownBody(i) ==
    /\ ~crashed
    /\ handlers[i].kind = "shutdown" /\ handlers[i].pc = "log"
    /\ logs' = logs + 1
    /\ handlers' = [handlers EXCEPT ![i].pc = "done"]
    /\ UNCHANGED <<fs, poisoned, options, state, root, workspace, outbox, responses, crashed>>

\* A lock becomes poisoned: from here on write() and read() on it return Err.
\* No handler of the server brings this about by itself; it is the fault
\* that the Err arms of set_root, get_root, set_doc and get_doc provide for.
PoisonLock(l) ==
    /\ ~crashed
    /\ l \notin poisoned
    /\ poisoned' = poisoned \cup {l}
    /\ UNCHANGED <<fs, options, state, root, workspace, handlers, outbox, logs,
                   responses, crashed>>

Locks == {"root", "workspace"}

\* A call of parser::parse(code, version) from outside check_syntax.
NumCalls == Cardinality({i \in Ids : handlers[i].kind = "parse"})

Parse(code, version) ==
    /\ ~crashed
    /\ NumCalls < MaxCalls
    /\ LET h == [Handler("parse", "done", NoUri, "", << >>, None)
                    EXCEPT !.content = code, !.version = Some(version)]
       IN  IF IsSome(LuaVersionOf(version))
           THEN /\ handlers' = Append(handlers, [h EXCEPT !.result = parse(code, version)])
                /\ UNCHANGED crashed
           ELSE /\ handlers' = Append(handlers, [h EXCEPT !.pc = "panicked"])
                /\ crashed' = TRUE
    /\ UNCHANGED <<fs, poisoned, options, state, root, workspace, outbox, logs, responses>>

(***************************************************************************)
(* What the client sends.                                                  *)
(***************************************************************************)
RootUri(dir) == [scheme |-> "file", path |-> dir]
RootUris == {None, Some(RootUri(Ws)), Some(RootUri(Nowhere))}

NoGeneral == [general |-> None]
NoEncodings == [general |-> Some([position_encodings |-> None])]
Offers(encodings) == [general |-> Some([position_encodings |-> Some(encodings)])]

EncodingKinds == {UTF8, UTF16, UTF32, "utf-7"}
RECURSIVE SeqsUpTo(_, _)
SeqsUpTo(S, n) ==
    IF n = 0 THEN {<< >>}
    ELSE LET shorter == SeqsUpTo(S, n - 1)
         IN  shorter \cup {Append(q, x) : q \in shorter, x \in S}

AllCapabilities ==
    {NoGeneral, NoEncodings} \cup {Offers(e) : e \in SeqsUpTo(EncodingKinds, MaxEncodings)}
SessionCapabilities == {NoGeneral}

UriA == UrlFromFilePath(PathA)
UriC == UrlFromFilePath(PathC)
UriUntitled == [scheme |-> "untitled", path |-> EncodePath(PathA)]
Uris == {UriA, UriC, UriUntitled}

EventTexts == {TValid, TBroken}
LanguageIds == {"lua", "plaintext"}
ChangeLists == {<< >>, <<TValid>>, <<TBroken>>, <<TBroken, TValid>>}

Init ==
    /\ fs \in FileSystems
    /\ state = "Uninitialized"
    /\ root = None
    /\ workspace = EmptyMap
    /\ handlers = << >>
    /\ outbox = << >>
    /\ logs = 0
    /\ responses = << >>
    /\ crashed = FALSE
    /\ poisoned = {}
    /\ options = "Lua51"

(***************************************************************************)
(* Spec: a session from the handshake on: initialize, initialized and the  *)
(* workspace scan, with documents opened and changed meanwhile.            *)
(***************************************************************************)
Next ==
    \/ \E c \in SessionCapabilities, r \in RootUris : Initialize(InitializeParams(c, r))
    \/ Initialized
    \/ \E i \in Ids : InitializedEnd(i)
    \/ \E u \in {UriA, UriC} : DidOpen(u, "lua", TBroken)
    \/ DidChange(UriA, <<TValid>>)
    \/ \E i \in Ids : DidOpenBody(i)
    \/ \E i \in Ids : DidChangeBody(i)
    \/ \E i \in Ids : CheckSyntaxLog(i)
    \/ \E i \in Ids : CheckSyntaxPublish(i)

Spec == Init /\ [][Next]_vars

(***************************************************************************)
(* Properties of the session.                                              *)
(***************************************************************************)
PublishedBy(i) == SelectSeq(outbox, LAMBDA m : m.by = i)
ScanComplete(i) == handlers[i].pc \in {"fin_log", "done"}
RootUnresolvable(params) ==
    IsSome(params.root_uri) /\ ~DirExists(UrlPath(Unwrap(params.root_uri)))

\* the *.lua files a recursive walk below dir can find
LuaFilesUnder(fsys, dir) ==
    {p \in DOMAIN fsys : /\ p.ext = "lua"
                         /\ fsys[p] \in {"file", "unreadable"}
                         /\ Len(p.dir) >= Len(dir)
                         /\ \A k \in 1..Len(dir) : p.dir[k] = dir[k]}

\* C1: after an initialize whose root URI names a path that does not exist, the
\* response is a success, the root stays unset, and initialized indexes
\* nothing, publishes nothing and does not abort, so the session goes on.
C1_MissingRootSkipsIndexing ==
    \A i \in Ids :
        (handlers[i].kind = "initialize"
            /\ RootUnresolvable(Unwrap(handlers[i].params)))
        => /\ Len(responses) = 1 /\ responses[1].ok
           /\ root = None
           /\ ~crashed
           /\ \A j \in Ids :
                 handlers[j].kind = "initialized"
                 => /\ handlers[j].pc # "panicked"
                    /\ handlers[j].wrote = << >>
                    /\ PublishedBy(j) = << >>

\* C2: a didOpen or didChange dispatched after initialized stores nothing and
\* publishes nothing before the scan of initialized is complete, and none of
\* its publishes lies between two publishes of the scan.
C2_IndexBeforeServe ==
    \A i, j \in Ids :
        (handlers[i].kind = "initialized"
            /\ handlers[j].kind \in {"did_open", "did_change"} /\ i < j)
        => /\ (handlers[j].wrote # << >> \/ PublishedBy(j) # << >>) => ScanComplete(i)
           /\ ~ \E a, b, c \in 1..Len(outbox) :
                   /\ a < b /\ b < c
                   /\ outbox[a].by = i /\ outbox[b].by = j /\ outbox[c].by = i

\* C4: when the scan of initialized is complete, the scan has published exactly
\* once for each *.lua file below the root and for nothing else, with an empty
\* array exactly for the files without syntax errors, and has stored each
\* file's content in the document store.
C4_IndexerPublishesEachFile ==
    \A i \in Ids :
        (handlers[i].kind = "initialized" /\ ScanComplete(i))
        => LET pub == PublishedBy(i)
               found == LuaFilesUnder(fs, Unwrap(root))
           IN  /\ {pub[k].uri : k \in 1..Len(pub)} = {UrlFromFilePath(p) : p \in found}
               /\ Len(pub) = Cardinality(found)
               /\ \A k \in 1..Len(pub) :
                     \E p \in found :
                        /\ pub[k].uri = UrlFromFilePath(p)
                        /\ (pub[k].diagnostics = << >>)
                              <=> (FileContent(p).errors["Lua51"] = << >>)
               /\ \A p \in found :
                     /\ p \in DOMAIN workspace
                     /\ \E w \in 1..Len(handlers[i].wrote) :
                           handlers[i].wrote[w] = [path |-> p, content |-> FileContent(p)]

\* a complete scan of three files, one of them in a subdirectory
C4_Witness ==
    \E i \in Ids :
        /\ handlers[i].kind = "initialized" /\ handlers[i].pc = "done"
        /\ Len(PublishedBy(i)) = 3
        /\ \E k \in 1..Len(outbox) : outbox[k].by = i /\ outbox[k].diagnostics # << >>
        /\ \E k \in 1..Len(outbox) : outbox[k].by = i /\ outbox[k].diagnostics = << >>

\* C5: a matched file that cannot be read is passed over: initialized does not
\* abort, and when its scan is complete every readable matched file is stored
\* and published.
C5_UnreadableSkipped ==
    \A i \in Ids :
        (handlers[i].kind = "initialized" /\ IsSome(root))
        => /\ handlers[i].pc # "panicked"
           /\ ScanComplete(i)
              => \A p \in LuaFilesUnder(fs, Unwrap(root)) :
                    fs[p] = "file"
                    => /\ p \in DOMAIN workspace
                       /\ \E k \in 1..Len(outbox) :
                             outbox[k].by = i /\ outbox[k].uri = UrlFromFilePath(p)

\* the diagnostics a run over content owes the client, from the raw errors
ExpectedTags(content) ==
    LET raw == ParseFallible(content, "Lua51")
    IN  [k \in 1..Len(raw) |->
            [severity |-> "ERROR", message |-> raw[k].message,
             code |-> "luascan code", source |-> "luascan source"]]
TagsOf(diagnostics) ==
    [k \in 1..Len(diagnostics) |->
        [severity |-> diagnostics[k].severity, message |-> diagnostics[k].message,
         code |-> diagnostics[k].code, source |-> diagnostics[k].source]]
\* the check_syntax calls of handler i that have returned
Completed(i) ==
    Len(handlers[i].runs) - (IF handlers[i].pc \in {"cs_log", "cs_publish"} THEN 1 ELSE 0)

\* C6: every completed run of check_syntax(uri, content) has sent exactly one
\* publishDiagnostics, for uri, with one diagnostic per raw parser error in the
\* parser's order, each of severity Error with the parser's message and the
\* fixed code and source; a run without errors has sent an empty array.
C6_OnePublishPerRun ==
    \A i \in Ids :
        LET pub == PublishedBy(i)
        IN  /\ Len(pub) = Completed(i)
            /\ \A k \in 1..Len(pub) :
                  /\ pub[k].uri = handlers[i].runs[k].uri
                  /\ TagsOf(pub[k].diagnostics) = ExpectedTags(handlers[i].runs[k].content)

\* runs with two errors and with none have both completed
C6_Witness ==
    /\ \E k \in 1..Len(outbox) : Len(outbox[k].diagnostics) = 2
    /\ \E k \in 1..Len(outbox) : outbox[k].diagnostics = << >>
    /\ \E i \in Ids : handlers[i].kind = "did_change" /\ handlers[i].pc = "done"
                      /\ PublishedBy(i) # << >>

(***************************************************************************)
(* SpecDocs: a session in which documents are opened and changed, under    *)
(* every URI, language identifier and text the client may send.            *)
(***************************************************************************)
\* file systems that differ in what a document URI resolves to
InitDocs ==
    /\ Init
    /\ fs[PathB] = "file"
    /\ fs[PathC] \in {"file", "absent"}

NextDocs ==
    \/ \E c \in SessionCapabilities : Initialize(InitializeParams(c, Some(RootUri(Ws))))
    \/ \E u \in Uris, l \in LanguageIds, t \in EventTexts : DidOpen(u, l, t)
    \/ \E u \in Uris, t \in EventTexts : DidChange(u, <<t>>)
    \/ \E i \in Ids : DidOpenBody(i)
    \/ \E i \in Ids : DidChangeBody(i)
    \/ \E i \in Ids : CheckSyntaxLog(i)
    \/ \E i \in Ids : CheckSyntaxPublish(i)

SpecDocs == InitDocs /\ [][NextDocs]_vars

Quiescent == \A i \in Ids : handlers[i].pc = "done"
\* the didOpen and didChange events on uri that the server processed (their
\* handlers went into check_syntax), in the order of their arrival
EditsOf(uri) ==
    SelectSeq([i \in Ids |-> i],
              LAMBDA i : /\ handlers[i].kind \in {"did_open", "did_change"}
                         /\ handlers[i].uri = uri
                         /\ handlers[i].runs # << >>)
\* the text an event carries: of didChange, the first entry of its change list
EventText(h) == IF h.kind = "did_change" THEN h.changes[1] ELSE Unwrap(h.text)
IsValid(text) == ParseFallible(text, "Lua51") = << >>
PublishesFor(uri) == SelectSeq(outbox, LAMBDA m : m.uri = uri)
Last(seq) == seq[Len(seq)]

\* the last event on uri carries a valid text and an earlier one a broken text
FixedAtLast(uri) ==
    LET edits == EditsOf(uri)
    IN  /\ Len(edits) >= 2
        /\ IsValid(EventText(handlers[Last(edits)]))
        /\ \E k \in 1..(Len(edits) - 1) : ~IsValid(EventText(handlers[edits[k]]))

\* C3 as stated: once all handlers have finished, the last publishDiagnostics
\* for a URI whose last processed event fixed a broken text carries an empty
\* array.
C3_LastPublishEmpty ==
    \A uri \in Uris :
        (Quiescent /\ FixedAtLast(uri))
        => /\ PublishesFor(uri) # << >>
           /\ Last(PublishesFor(uri)).diagnostics = << >>

\* C3 as amended: once all handlers have finished, the last publishDiagnostics
\* for a URI whose last processed event fixed a broken text carries an empty
\* array when it was sent by the handler of that last event.
C3_LastPublishEmptyWhenInOrder ==
    \A uri \in Uris :
        (Quiescent /\ FixedAtLast(uri))
        => /\ PublishesFor(uri) # << >>
           /\ Last(PublishesFor(uri)).by = Last(EditsOf(uri))
              => Last(PublishesFor(uri)).diagnostics = << >>

\* a broken text opened, then changed to a valid one, published in that order
C3_Witness ==
    /\ Quiescent /\ FixedAtLast(UriA)
    /\ Len(PublishesFor(UriA)) = 2
    /\ PublishesFor(UriA)[1].diagnostics # << >>
    /\ handlers[EditsOf(UriA)[1]].kind = "did_open"
    /\ Last(PublishesFor(UriA)).by = Last(EditsOf(UriA))

\* the document of a didOpen is a Lua document in an existing file
OpensLuaFile(h) ==
    /\ h.lang = "lua"
    /\ h.uri.scheme = "file"
    /\ fs[DecodePath(h.uri.path)] \in {"file", "unreadable"}

\* C10: a didOpen for a Lua document whose URI resolves to an existing file
\* stores its text and then publishes for its URI; any other didOpen stores
\* nothing and publishes nothing; the store holds what the handlers stored.
C10_DidOpenOnlyLuaFiles ==
    /\ \A i \in Ids :
          handlers[i].kind = "did_open"
          => LET h == handlers[i]
                 pub == PublishedBy(i)
             IN  IF OpensLuaFile(h)
                 THEN /\ h.pc # "log"
                         => /\ h.wrote = << [path |-> h.uri.path, content |-> Unwrap(h.text)] >>
                            /\ h.uri.path \in DOMAIN workspace
                      /\ pub # << >> => h.wrote # << >>
                      /\ \A k \in 1..Len(pub) :
                            /\ pub[k].uri = h.uri
                            /\ pub[k].diagnostics = Diagnostics(Unwrap(h.text))
                      /\ h.pc = "done" => Len(pub) = 1
                 ELSE h.wrote = << >> /\ pub = << >>
    /\ DOMAIN workspace =
          UNION {{handlers[i].wrote[k].path : k \in 1..Len(handlers[i].wrote)} : i \in Ids}

\* one didOpen was processed and published, another was refused for its language
C10_Witness ==
    \E i, j \in Ids :
        /\ handlers[i].kind = "did_open" /\ handlers[i].pc = "done"
        /\ Len(PublishedBy(i)) = 1
        /\ handlers[j].kind = "did_open" /\ handlers[j].pc = "done"
        /\ handlers[j].lang # "lua" /\ handlers[j].uri = handlers[i].uri
        /\ PublishedBy(j) = << >>

\* the URI of a notification resolves to an existing file
ResolvesToFile(uri) ==
    uri.scheme = "file" /\ fs[DecodePath(uri.path)] \in {"file", "unreadable"}

\* C11: a didChange whose URI resolves to an existing file runs check_syntax
\* once, on the text of its change entry, whether or not the document is in
\* the store, stores nothing, and publishes the diagnostics of that text; any
\* other didChange runs and publishes nothing.
C11_DidChangeUsesEventText ==
    \A i \in Ids :
        (handlers[i].kind = "did_change" /\ handlers[i].pc \notin {"log", "panicked"})
        => LET h == handlers[i]
               pub == PublishedBy(i)
           IN  /\ h.wrote = << >>
               /\ IF ResolvesToFile(h.uri)
                  THEN /\ h.runs = << [uri |-> h.uri, content |-> h.changes[1]] >>
                       /\ \A k \in 1..Len(pub) :
                             pub[k] = Publish(i, h.uri, Diagnostics(h.changes[1]))
                       /\ h.pc = "done" => Len(pub) = 1
                  ELSE h.runs = << >> /\ pub = << >>

\* a didChange for a document that is not in the store has published the
\* diagnostics of its text
C11_Witness ==
    \E i \in Ids :
        /\ handlers[i].kind = "did_change" /\ handlers[i].pc = "done"
        /\ PublishedBy(i) = << Publish(i, UriA, Diagnostics(TBroken)) >>
        /\ UrlPath(UriA) \notin DOMAIN workspace

(***************************************************************************)
(* SpecStore: a session with every handler: the scan of initialized, and   *)
(* documents opened, changed and saved, up to shutdown.                    *)
(***************************************************************************)
SaveTexts == {None, Some(TIncomplete)}

\* the root is the subdirectory, with one Lua file below it
Sub == <<"ws", "sub">>
StoreRootUris == {None, Some(RootUri(Sub)), Some(RootUri(Nowhere))}

InitStore ==
    /\ Init
    /\ fs[PathB] = "file"
    /\ fs[PathC] = "file"

NextStore ==
    \/ \E c \in SessionCapabilities, r \in StoreRootUris :
          Initialize(InitializeParams(c, r))
    \/ Initialized
    \/ \E i \in Ids : InitializedEnd(i)
    \/ DidOpen(UriA, "lua", TBroken)
    \/ DidChange(UriA, <<TValid>>)
    \/ \E u \in {UriA, UriUntitled}, t \in SaveTexts : DidSave(u, t)
    \/ Shutdown
    \/ \E i \in Ids : DidOpenBody(i)
    \/ \E i \in Ids : DidChangeBody(i)
    \/ \E i \in Ids : DidSaveBody(i)
    \/ \E i \in Ids : ShutdownBody(i)
    \/ \E i \in Ids : CheckSyntaxLog(i)
    \/ \E i \in Ids : CheckSyntaxPublish(i)

SpecStore == InitStore /\ [][NextStore]_vars

\* handler i goes into check_syntax in this step: the event is processed
Processes(i) ==
    /\ handlers[i].kind \in DocKinds
    /\ handlers[i].pc = "log"
    /\ handlers'[i].pc = "cs_log"

\* C12: no entry of the document store is ever removed; the step that
\* processes a didOpen leaves its text in the store under the document's key,
\* and the step that processes a didChange or a didSave leaves the event's
\* text in the entry of a document that has one: the stored text is that of
\* the last processed event.
C12_StoreTracksLatestText ==
    [][ /\ DOMAIN workspace \subseteq DOMAIN workspace'
        /\ \A i \in Ids :
              Processes(i)
              => LET key == UrlPath(handlers[i].uri)
                 IN  /\ handlers[i].kind = "did_open" => key \in DOMAIN workspace'
                     /\ key \in DOMAIN workspace'
                        => workspace'[key] = handlers'[i].content ]_vars

\* the root the handshake leaves: that of the initialize request when its
\* path exists
RootOfHandshake ==
    IF \E i \in Ids : /\ handlers[i].kind = "initialize"
                      /\ IsSome(Unwrap(handlers[i].params).root_uri)
                      /\ ~RootUnresolvable(Unwrap(handlers[i].params))
    THEN LET i == CHOOSE i \in Ids : handlers[i].kind = "initialize"
         IN  Some(UrlPath(Unwrap(Unwrap(handlers[i].params).root_uri)))
    ELSE None

C14_RootWrittenOnceByInitialize ==
    [][ root' # root
        => /\ root = None
           /\ Len(handlers') = Len(handlers) + 1
           /\ handlers'[Len(handlers')].kind = "initialize"
           /\ ~Dispatched("initialized")
           /\ IsSome(root') /\ DirExists(Unwrap(root')) ]_vars

\* the root is set, and initialized, a didChange and shutdown have all run
C14_Witness ==
    /\ root = Some(Sub)
    /\ \E i, j, k \in Ids :
          /\ handlers[i].kind = "initialized" /\ handlers[i].pc = "done"
          /\ handlers[j].kind = "did_change" /\ handlers[j].pc = "done"
          /\ handlers[k].kind = "shutdown" /\ handlers[k].pc = "done"

(***************************************************************************)
(* SpecLocks: a session over a readable workspace with an existing root,   *)
(* in which the acquisition of either lock may start to fail at any time.  *)
(***************************************************************************)
NextLocks ==
    \/ \E c \in SessionCapabilities : Initialize(InitializeParams(c, Some(RootUri(Sub))))
    \/ \E l \in Locks : PoisonLock(l)
    \/ Initialized
    \/ \E i \in Ids : InitializedEnd(i)
    \/ DidOpen(UriA, "lua", TBroken)
    \/ DidChange(UriA, <<TValid>>)
    \/ \E i \in Ids : DidOpenBody(i)
    \/ \E i \in Ids : DidChangeBody(i)
    \/ \E i \in Ids : CheckSyntaxLog(i)
    \/ \E i \in Ids : CheckSyntaxPublish(i)

SpecLocks == InitStore /\ [][NextLocks]_vars

\* C15: when the acquisition of a lock fails, no handler panics and the
\* session is not aborted: initialized and the document handlers that run
\* afterwards complete.
C15_PoisonedLockNeverCrashes ==
    poisoned # {}
    => /\ ~crashed
       /\ \A i \in Ids : handlers[i].pc # "panicked"

\* what the code does: with a failed acquisition the document handlers go on
\* (a read gives None, a write is skipped); initialized alone panics, on the
\* None that get_root gives it
PanicOnlyInInitialized ==
    /\ \A i \in Ids : handlers[i].pc = "panicked" => handlers[i].kind = "initialized"
    /\ "root" \in poisoned => get_root(root) = None

(***************************************************************************)
(* SpecParse: parser::parse called on every text under every value of      *)
(* RuntimeVersion.                                                         *)
(***************************************************************************)
ParseTexts == {TValid, TIncomplete, TBroken, TGoto}

NextParse ==
    \E code \in ParseTexts, version \in RuntimeVersions \cup {OtherVersion} :
        Parse(code, version)

SpecParse == Init /\ [][NextParse]_vars

\* C16: a call of parse with a version that is none of the four is rejected:
\* it ends as a rejected run, without a panic.
C16_UnsupportedDialectRejected ==
    \A i \in Ids :
        (handlers[i].kind = "parse" /\ Unwrap(handlers[i].version) \notin RuntimeVersions)
        => /\ handlers[i].pc = "rejected"
           /\ ~crashed

\* what the code does: under each of the four versions parse returns one
\* diagnostic per error of parse_fallible; under any other it panics
ParsePanicsOnOtherVersion ==
    \A i \in Ids :
        handlers[i].kind = "parse"
        => IF Unwrap(handlers[i].version) \in RuntimeVersions
           THEN /\ handlers[i].pc = "done"
                /\ Len(handlers[i].result)
                      = Len(ParseFallible(handlers[i].content, Unwrap(handlers[i].version)))
           ELSE handlers[i].pc = "panicked" /\ crashed

(***************************************************************************)
(* SpecDrop: document notifications at any time of the session, before the *)
(* handshake and after shutdown too, for file: URIs and others.            *)
(***************************************************************************)
DropUris == {UriA, UriUntitled}

NextDrop ==
    \/ \E c \in SessionCapabilities : Initialize(InitializeParams(c, Some(RootUri(Sub))))
    \/ \E k \in DocKinds, u \in DropUris : DropNotification(k, u)
    \/ \E u \in DropUris : DidOpen(u, "lua", TBroken)
    \/ \E u \in DropUris : DidChange(u, <<TIncomplete>>)
    \/ \E u \in DropUris : DidSave(u, Some(TValid))
    \/ Shutdown
    \/ \E i \in Ids : DidOpenBody(i)
    \/ \E i \in Ids : DidChangeBody(i)
    \/ \E i \in Ids : DidSaveBody(i)
    \/ \E i \in Ids : ShutdownBody(i)
    \/ \E i \in Ids : CheckSyntaxLog(i)
    \/ \E i \in Ids : CheckSyntaxPublish(i)

SpecDrop == InitStore /\ [][NextDrop]_vars

\* the notification of handler i was dropped: it came outside the Initialized
\* state, or its handler found that the URI is no file: URL
Dropped(i) ==
    /\ handlers[i].kind \in DocKinds
    /\ \/ handlers[i].pc = "dropped"
       \/ handlers[i].uri.scheme # "file" /\ handlers[i].pc # "log"

DroppedBeforeHandshake ==
    \E i, j \in Ids :
        /\ i < j
        /\ handlers[i].kind = "did_change" /\ handlers[i].pc = "dropped"
        /\ handlers[j].kind = "did_open" /\ Len(PublishedBy(j)) = 1

\* the awaits of client I/O a handler can be suspended at
ClientAwaits == {"log", "cs_log", "cs_publish", "fin_log"}
Guards == {Guard(l, m) : l \in Locks, m \in {"read", "write"}}

ChangesOf(uri) ==
    SelectSeq([i \in Ids |-> i],
              LAMBDA i : /\ handlers[i].kind = "did_change"
                         /\ handlers[i].uri = uri
                         /\ handlers[i].runs # << >>)

\* C19: no run of a didChange is debounced or cancelled: once all handlers
\* have finished, each processed didChange has published exactly once, the
\* diagnostics of its own text, whatever other handlers were in flight for the
\* same URI; what the client shows for a URI is the last of these publishes
\* in the order of their sending, which need not be the order of the events.
C19_EveryChangePublishesOnce ==
    Quiescent
    => \A uri \in Uris :
          LET changes == ChangesOf(uri)
              pubs == PublishesFor(uri)
          IN  /\ \A k \in 1..Len(changes) :
                    PublishedBy(changes[k])
                       = << Publish(changes[k], uri,
                                    Diagnostics(handlers[changes[k]].changes[1])) >>
              /\ Len(pubs) = Len(EditsOf(uri))
              /\ pubs # << >>
                 => Last(pubs).diagnostics
                       = Diagnostics(EventText(handlers[Last(pubs).by]))

\* two didChange handlers for one URI were in flight together, the older with
\* a broken text and the newer with a valid one; both have finished, and the
\* last publish is the older one's: the client shows the errors of a text
\* that is no longer current
C19_Witness ==
    /\ Quiescent
    /\ Len(ChangesOf(UriA)) = 2
    /\ LET older == ChangesOf(UriA)[1]
           newer == ChangesOf(UriA)[2]
       IN  /\ handlers[older].changes = <<TBroken>>
           /\ handlers[newer].changes = <<TValid>>
           /\ PublishesFor(UriA)
                 = << Publish(newer, UriA, << >>),
                      Publish(older, UriA, Diagnostics(TBroken)) >>

(***************************************************************************)
(* SpecDialects: sessions built with each of the four Lua versions in      *)
(* their options, over a text whose errors depend on the version.          *)
(***************************************************************************)
InitDialects ==
    /\ fs \in FileSystems /\ fs[PathB] = "file" /\ fs[PathC] = "file"
    /\ options \in RuntimeVersions
    /\ state = "Uninitialized"
    /\ root = None
    /\ workspace = EmptyMap
    /\ handlers = << >>
    /\ outbox = << >>
    /\ logs = 0
    /\ responses = << >>
    /\ crashed = FALSE
    /\ poisoned = {}

NextDialects ==
    \/ \E c \in SessionCapabilities : Initialize(InitializeParams(c, Some(RootUri(Sub))))
    \/ Initialized
    \/ \E i \in Ids : InitializedEnd(i)
    \/ DidOpen(UriA, "lua", TGoto)
    \/ DidChange(UriA, <<TGoto>>)
    \/ DidSave(UriA, Some(TGoto))
    \/ \E i \in Ids : DidOpenBody(i)
    \/ \E i \in Ids : DidChangeBody(i)
    \/ \E i \in Ids : DidSaveBody(i)
    \/ \E i \in Ids : CheckSyntaxLog(i)
    \/ \E i \in Ids : CheckSyntaxPublish(i)

SpecDialects == InitDialects /\ [][NextDialects]_vars

\* C20: every run of check_syntax, from the scan, didOpen, didChange or
\* didSave, parses under the Lua version of the session's options, and its
\* publish carries the errors the text has under that version.
C20_ParsesUnderConfiguredDialect ==
    \A i \in Ids :
        handlers[i].runs # << >>
        => /\ handlers[i].version = Some(options)
           /\ \A k \in 1..Len(PublishedBy(i)) :
                 Len(PublishedBy(i)[k].diagnostics)
                    = Len(ParseFallible(handlers[i].runs[k].content, options))

\* what the code does: every run parses under Lua 5.1, whatever the options
AlwaysParsesUnderLua51 ==
    \A i \in Ids :
        handlers[i].runs # << >>
        => /\ handlers[i].version = Some("Lua51")
           /\ \A k \in 1..Len(PublishedBy(i)) :
                 Len(PublishedBy(i)[k].diagnostics)
                    = Len(ParseFallible(handlers[i].runs[k].content, "Lua51"))

(***************************************************************************)
(* SpecChanges: didChange notifications with change lists of every length, *)
(* none, one and two entries, with a didOpen among them.                   *)
(***************************************************************************)
NextChanges ==
    \/ \E c \in SessionCapabilities : Initialize(InitializeParams(c, Some(RootUri(Sub))))
    \/ \E u \in DropUris, cl \in ChangeLists : DidChange(u, cl)
    \/ DidOpen(UriA, "lua", TIncomplete)
    \/ \E i \in Ids : DidOpenBody(i)
    \/ \E i \in Ids : DidChangeBody(i)
    \/ \E i \in Ids : CheckSyntaxLog(i)
    \/ \E i \in Ids : CheckSyntaxPublish(i)

SpecChanges == InitStore /\ [][NextChanges]_vars

\* C21: no didChange handler panics, whatever the length of its change list,
\* and the session is not aborted; a didChange with one entry for an existing
\* file runs check_syntax on that entry's text.
C21_DidChangeAnyLength ==
    /\ ~crashed
    /\ \A i \in Ids :
          handlers[i].kind = "did_change"
          => /\ handlers[i].pc # "panicked"
             /\ (Len(handlers[i].changes) = 1 /\ ResolvesToFile(handlers[i].uri)
                   /\ handlers[i].pc # "log")
                => handlers[i].runs
                      = << [uri |-> handlers[i].uri, content |-> handlers[i].changes[1]] >>

\* what the code does: the handler panics on the empty list, before it looks
\* at the URI, and on no other; of a list with entries it uses the first
DidChangePanicsOnEmptyList ==
    \A i \in Ids :
        (handlers[i].kind = "did_change" /\ handlers[i].pc # "log")
        => IF handlers[i].changes = << >>
           THEN handlers[i].pc = "panicked" /\ crashed /\ handlers[i].runs = << >>
           ELSE /\ handlers[i].pc # "panicked"
                /\ ResolvesToFile(handlers[i].uri)
                   => handlers[i].runs
                         = << [uri |-> handlers[i].uri,
                               content |-> handlers[i].changes[1]] >>

(***************************************************************************)
(* SpecHandshake: initialize, under every capability set and root URI.     *)
(***************************************************************************)
NextHandshake ==
    \E c \in AllCapabilities, r \in RootUris : Initialize(InitializeParams(c, r))

SpecHandshake == Init /\ [][NextHandshake]_vars

\* the encodings a client offers, as a set
Offered(capabilities) ==
    IF capabilities.general = None THEN {}
    ELSE IF Unwrap(capabilities.general).position_encodings = None THEN {}
    ELSE LET e == Unwrap(Unwrap(capabilities.general).position_encodings)
         IN  {e[k] : k \in 1..Len(e)}

\* C8: the position encoding of the response is UTF-8 if the client offers it,
\* else UTF-16 if offered, else UTF-32 if offered, else none: a function of the
\* set of offered encodings alone.
C8_EncodingByPreference ==
    \A i \in Ids :
        handlers[i].kind = "initialize"
        => LET offered == Offered(Unwrap(handlers[i].params).capabilities)
               chosen == responses[i].capabilities.position_encoding
           IN  chosen = (CASE UTF8 \in offered -> Some(UTF8)
                           [] UTF8 \notin offered /\ UTF16 \in offered -> Some(UTF16)
                           [] {UTF8, UTF16} \cap offered = {} /\ UTF32 \in offered
                                -> Some(UTF32)
                           [] OTHER -> None)

\* the client lists UTF-16 before UTF-8 and gets UTF-8
C8_Witness ==
    \E i \in Ids :
        /\ handlers[i].kind = "initialize"
        /\ Unwrap(handlers[i].params).capabilities = Offers(<<UTF16, UTF8>>)
        /\ responses[i].capabilities.position_encoding = Some(UTF8)

\* C9: every initialize request gets a successful response with the server's
\* identity, full-document synchronisation and workspace-folder support.
C9_InitializeAlwaysSucceeds ==
    /\ Len(responses) = Cardinality({i \in Ids : handlers[i].kind = "initialize"})
    /\ \A k \in 1..Len(responses) :
          /\ responses[k].ok
          /\ responses[k].server_info = Some([name |-> "luascan", version |-> Some(VERSION)])
          /\ Unwrap(responses[k].capabilities.text_document_sync).change = Some("FULL")
          /\ Unwrap(Unwrap(responses[k].capabilities.workspace).workspace_folders).supported
                = Some(TRUE)

\* a request whose root does not exist has been answered
C9_Witness ==
    \E i \in Ids :
        /\ handlers[i].kind = "initialize"
        /\ RootUnresolvable(Unwrap(handlers[i].params))
        /\ Len(responses) = 1 /\ root = None

(***************************************************************************)
(* SpecTranslate: one didChange whose text has one syntax error, at every  *)
(* raw location from 0 to just above the range of u32.                     *)
(***************************************************************************)
MaxRaw == Pow2(U32Bits) + 1
RawLocations ==
    [line_start : 0..MaxRaw, col_start : 0..MaxRaw,
     line_end : 0..MaxRaw, col_end : 0..MaxRaw]
RawText(loc) ==
    Text("raw", << FullMoonError("AstError", Pos(loc.line_start, loc.col_start),
                                 Pos(loc.line_end, loc.col_end), "raw") >>)

InitTranslate ==
    /\ Init
    /\ \A p \in DOMAIN fs : fs[p] = "file"

NextTranslate ==
    \/ \E c \in SessionCapabilities : Initialize(InitializeParams(c, Some(RootUri(Ws))))
    \/ NumEvents = 0 /\ \E loc \in RawLocations : DidChange(UriA, <<RawText(loc)>>)
    \/ \E i \in Ids : DidChangeBody(i)
    \/ \E i \in Ids : CheckSyntaxLog(i)
    \/ \E i \in Ids : CheckSyntaxPublish(i)

SpecTranslate == InitTranslate /\ [][NextTranslate]_vars

Max0(v) == IF v > 0 THEN v ELSE 0

\* every raw line or column that has been published, with the value published
\* for it: <<raw, published>>
PublishedCoordinates ==
    UNION { UNION { UNION {
        LET raw == ParseFallible(handlers[i].runs[k].content, "Lua51")[e]
            range == PublishedBy(i)[k].diagnostics[e].range
        IN  { <<raw.start.line, range.start.line>>,
              <<raw.start.character, range.start.character>>,
              <<raw.end.line, range.end.line>>,
              <<raw.end.character, range.end.character>> }
        : e \in 1..Len(PublishedBy(i)[k].diagnostics) }
        : k \in 1..Len(PublishedBy(i)) }
        : i \in Ids }

\* C7: each of the four values v of a raw span is published as max(v - 1, 0),
\* never negative and never wrapped.
C7_SaturatingDecrement ==
    \A c \in PublishedCoordinates : c[2] = Max0(c[1] - 1) /\ c[2] >= 0

\* what the code does: v is cut to the width of u32 before the decrement, so
\* the value published is max(v - 1, 0) for every v below 2^U32Bits
RangesCutToU32 ==
    \A c \in PublishedCoordinates :
        /\ c[2] = Max0((c[1] % Pow2(U32Bits)) - 1) /\ c[2] >= 0
        /\ c[1] < Pow2(U32Bits) => c[2] = Max0(c[1] - 1)

====
